---- MODULE Spec2Model ----
(***************************************************************************)
(* ansi-csi: the Csi trait of src/src/csi.rs, implemented for every        *)
(* io::Write.  A formatting operation writes one escape sequence           *)
(* ESC [ <params> <final byte> to the sink with write_fmt and returns the  *)
(* io::Result; dsr writes the query ESC [ 6 n, flushes, and parses the     *)
(* reply ESC [ <row> ; <col> R out of a reader, with local echo off.       *)
(*                                                                         *)
(* Bytes are their ASCII codes.  A sequence of bytes is a TLA+ sequence.   *)
(***************************************************************************)
EXTENDS Integers, Sequences, FiniteSets, TLC

\* ---------------------------------------------------------------- bounds
\* Largest repeat count / coordinate / mode number handed to an operation.
MaxN == 11
\* Longest arbitrary input stream handed to dsr.
MaxLen == 4
\* Most digits of a row or a column in a well-formed reply.
MaxDigits == 2
\* Largest erase mode and cursor style tried (the guards are n<=3, n<=2, n<=6).
MaxMode == 7

\* ------------------------------------------------------------- constants
ESC == 27
LBRACKET == 91
\* '0' and '9', the arm 0x30...0x39 of the match in dsr
CH_0 == 48
CH_9 == 57
\* ';'
SEMI == 59
\* 'R'
CH_R == 82
\* An item of a reader that is not a byte: a read that returned Err, which
\* r.bytes().filter_map(|v| v.ok()) drops.
READ_ERR == -1

\* csi!(...) == concat!("\x1b[", ...)
CSI == <<ESC, LBRACKET>>

\* ------------------------------------------------------------ formatting
\* "{}" of a usize: its decimal digits, most significant first, no padding.
RECURSIVE Digits(_)
Digits(n) == IF n < 10 THEN <<CH_0 + n>>
             ELSE Digits(n \div 10) \o <<CH_0 + (n % 10)>>

\* _nz without its test for 0
nz_id(n) == n
\* avoid zero
nz(n) == IF n = 0 THEN 1 ELSE n

\* csi!("{}<final>") with one usize argument
Seq1(n, final) == CSI \o Digits(n) \o final

\* Each operation as the list of byte strings it hands to write_fmt, in
\* order (the empty list: the operation writes nothing).
cuu(n) == << Seq1(nz(n), <<65>>) >>                       \* 'A'
\* cud with the final byte of cuu
cud_up(n) == << Seq1(nz(n), <<65>>) >>
cud(n) == << Seq1(nz(n), <<66>>) >>                       \* 'B'
cuf(n) == << Seq1(nz(n), <<67>>) >>                       \* 'C'
cub(n) == << Seq1(nz(n), <<68>>) >>                       \* 'D'
cnl(n) == << Seq1(nz(n), <<69>>) >>                       \* 'E'
cpl(n) == << Seq1(nz(n), <<70>>) >>                       \* 'F'
cha(n) == << Seq1(nz(n), <<71>>) >>                       \* 'G'
\* cup with its two arguments in the other order
cup_swapped(r, c) == << CSI \o Digits(nz(c)) \o <<SEMI>> \o Digits(nz(r)) \o <<72>> >>
cup(r, c) == << CSI \o Digits(nz(r)) \o <<SEMI>> \o Digits(nz(c)) \o <<72>> >>  \* 'H'
\* ed without its range check
ed_unguarded(n) == << Seq1(n, <<74>>) >>
ed(n) == IF n <= 3 THEN << Seq1(n, <<74>>) >> ELSE << >>  \* 'J'
el(n) == IF n <= 2 THEN << Seq1(n, <<75>>) >> ELSE << >>  \* 'K'
su(n) == << Seq1(nz(n), <<83>>) >>                        \* 'S'
sd(n) == << Seq1(nz(n), <<84>>) >>                        \* 'T'
sgr(c) == << Seq1(c, <<109>>) >>                          \* 'm'
scp == << CSI \o <<115>> >>                               \* 's'
rcp == << CSI \o <<117>> >>                               \* 'u'
sm(n) == << Seq1(n, <<104>>) >>                           \* 'h'
rm(n) == << Seq1(n, <<108>>) >>                           \* 'l'
decscusr(n) == IF n <= 6 THEN << Seq1(n, <<32, 113>>) >> ELSE << >>  \* ' q'

\* sgr_color: kind 1 FgColor8bit(a), 2 FgColor24bit((a,b,c)),
\*            3 BgColor8bit(a), 4 BgColor24bit((a,b,c))
sgr_color(kind, a, b, c) ==
  LET lead == IF kind \in {1, 2} THEN <<51, 56>> ELSE <<52, 56>>   \* "38" / "48"
      body == IF kind \in {1, 3}
              THEN <<SEMI, 53, SEMI>> \o Digits(a)                 \* ";5;{}"
              ELSE <<SEMI, 50, SEMI>> \o Digits(a) \o <<SEMI>>     \* ";2;{};{};{}"
                   \o Digits(b) \o <<SEMI>> \o Digits(c)
  IN  << CSI \o lead \o body \o <<109>> >>

\* The query of dsr: csi!("6n")
DsrQuery == CSI \o <<54, 110>>

\* The values of enum SgrCode
SgrCodes == (0..19) \cup (21..25) \cup ((27..65) \ ({38, 48, 50} \cup (56..59)))
            \cup (90..97) \cup (100..107)

\* ------------------------------------------------------------------ sink
\* One write_fmt(bytes) on the sink: it succeeds with every byte written, or
\* fails after some proper prefix of the bytes reached the sink.
WriteFmt(bytes) ==
  {[ok |-> TRUE, wrote |-> bytes]}
    \cup {[ok |-> FALSE, wrote |-> SubSeq(bytes, 1, k)] : k \in 0..(Len(bytes) - 1)}

\* `self.write_fmt(..)?; Ok(())`: the io::Result of the operation, from the
\* outcome of its write.
\* the write's error dropped instead of returned
QMark_swallow(ok) == "Ok"
QMark(ok) == IF ok THEN "Ok" ELSE "Err"

\* The runs of an operation that hands `payloads` to write_fmt in order and
\* leaves at the first failure: what it returns, the bytes that reached the
\* sink, and the outcome of every write_fmt call made.
RECURSIVE Exec(_)
Exec(payloads) ==
  IF payloads = << >>
  THEN {[res |-> "Ok", wrote |-> << >>, wlog |-> << >>]}
  ELSE UNION {
         IF QMark(w.ok) = "Err"
         THEN {[res |-> "Err", wrote |-> w.wrote, wlog |-> <<w.ok>>]}
         ELSE {[res |-> t.res, wrote |-> w.wrote \o t.wrote, wlog |-> <<w.ok>> \o t.wlog]
                 : t \in Exec(Tail(payloads))}
         : w \in WriteFmt(Head(payloads)) }

\* ----------------------------------------------------------------- state
VARIABLES
  pc,        \* "idle": the caller is about to call; "loop", "exit": positions
             \* in dsr; "done": the call has returned and the caller holds res
  call,      \* the call in progress or the last call: [op, args]
  res,       \* what the last call returned: [kind, row, col]
  wrote,     \* the bytes that reached the sink during the call
  wlog,      \* the outcome (TRUE: Ok) of each write_fmt of the call, in order
  flushed,   \* the call flushed the sink successfully
  echo,      \* the terminal's local echo flag
  oldstat,   \* dsr's snapshot of the terminal mode
  offs,      \* echo_off calls made by the call
  ons,       \* echo_on calls made by the call
  rd,        \* the reader handed to dsr: the items not yet read
  consumed,  \* the items dsr has read from the reader, in order
  row, col, tmp,   \* the locals of dsr
  trow, tcol,      \* the terminal's cursor, 1-based
  prog,      \* the calls the caller has still to make on the terminal
  hist       \* the calls completed on the terminal, oldest first

vars == <<pc, call, res, wrote, wlog, flushed, echo, oldstat, offs, ons,
          rd, consumed, row, col, tmp, trow, tcol, prog, hist>>

dsrLocals == <<rd, consumed, row, col, tmp>>
termVars == <<trow, tcol, prog, hist>>
echoVars == <<echo, oldstat, offs, ons>>

NoRes == [kind |-> "none", row |-> 0, col |-> 0]
Unit(kind) == [kind |-> kind, row |-> 0, col |-> 0]
Some(r, c) == [kind |-> "Some", row |-> r, col |-> c]

Quiet ==
  /\ pc = "idle"
  /\ call = [op |-> "none", args |-> << >>]
  /\ res = NoRes
  /\ wrote = << >>
  /\ wlog = << >>
  /\ flushed = FALSE
  /\ echo \in BOOLEAN
  /\ oldstat = TRUE
  /\ offs = 0
  /\ ons = 0
  /\ rd = << >>
  /\ consumed = << >>
  /\ row = 0 /\ col = 0 /\ tmp = 0
  /\ hist = << >>

\* A sink that may fail and is no terminal: nothing answers the query, dsr
\* reads whatever reader it is handed.
Init ==
  /\ Quiet
  /\ trow = 1 /\ tcol = 1
  /\ prog = << >>

\* ------------------------------------------------- formatting operations
\* A call of a formatting operation on a sink that may fail.
Invoke(op, args, payloads) ==
  /\ pc = "idle"
  /\ \E x \in Exec(payloads) :
       /\ res' = Unit(x.res)
       /\ wrote' = x.wrote
       /\ wlog' = x.wlog
  /\ call' = [op |-> op, args |-> args]
  /\ flushed' = FALSE
  /\ offs' = 0 /\ ons' = 0
  /\ rd' = << >> /\ consumed' = << >>
  /\ row' = 0 /\ col' = 0 /\ tmp' = 0
  /\ pc' = "done"
  /\ UNCHANGED <<echo, oldstat, termVars>>

Counts == 0..MaxN
Modes == 0..MaxMode
\* u8 colour components tried
Colours == {0, 7, 255}

Cuu == \E n \in Counts : Invoke("cuu", <<n>>, cuu(n))
Cud == \E n \in Counts : Invoke("cud", <<n>>, cud(n))
Cuf == \E n \in Counts : Invoke("cuf", <<n>>, cuf(n))
Cub == \E n \in Counts : Invoke("cub", <<n>>, cub(n))
Cnl == \E n \in Counts : Invoke("cnl", <<n>>, cnl(n))
Cpl == \E n \in Counts : Invoke("cpl", <<n>>, cpl(n))
Cha == \E n \in Counts : Invoke("cha", <<n>>, cha(n))
Cup == \E r \in Counts, c \in Counts : Invoke("cup", <<r, c>>, cup(r, c))
Ed == \E n \in Modes : Invoke("ed", <<n>>, ed(n))
El == \E n \in Modes : Invoke("el", <<n>>, el(n))
Su == \E n \in Counts : Invoke("su", <<n>>, su(n))
Sd == \E n \in Counts : Invoke("sd", <<n>>, sd(n))
Sgr == \E c \in SgrCodes : Invoke("sgr", <<c>>, sgr(c))
SgrColor == \E k \in 1..4, a \in Colours, b \in Colours, c \in Colours :
              /\ (k \in {1, 3} => b = 0 /\ c = 0)
              /\ Invoke("sgr_color", <<k, a, b, c>>, sgr_color(k, a, b, c))
Scp == Invoke("scp", << >>, scp)
Rcp == Invoke("rcp", << >>, rcp)
Sm == \E n \in Counts : Invoke("sm", <<n>>, sm(n))
Rm == \E n \in Counts : Invoke("rm", <<n>>, rm(n))
Decscusr == \E n \in Modes : Invoke("decscusr", <<n>>, decscusr(n))

\* ------------------------------------------------------------------ echo
\* echo_off(): the snapshot of the terminal mode it returns, and the mode it
\* leaves (echo cleared).  echo_on(snapshot): the mode it leaves.
echo_off(mode) == [snapshot |-> mode, mode |-> FALSE]
echo_on(snapshot) == snapshot

\* ------------------------------------------------------------------- dsr
\* One turn of the loop of dsr on byte b: the match on b.  The locals are
\* usize; the inputs tried keep tmp far below usize::MAX, so tmp * 10 + d is
\* the exact sum.
\* Variants of the match: a byte of the last arm clears the accumulator; ';'
\* does not clear it; col follows the accumulator on every digit; ';' commits
\* col instead of row.
DsrStep_other_resets(st, b) ==
  IF b \in CH_0..CH_9 THEN [st EXCEPT !.tmp = st.tmp * 10 + (b - CH_0)]
  ELSE IF b = SEMI THEN [st EXCEPT !.row = st.tmp, !.tmp = 0]
  ELSE IF b = CH_R THEN [st EXCEPT !.col = st.tmp, !.brk = TRUE]
  ELSE [st EXCEPT !.tmp = 0]
DsrStep_no_reset(st, b) ==
  IF b \in CH_0..CH_9 THEN [st EXCEPT !.tmp = st.tmp * 10 + (b - CH_0)]
  ELSE IF b = SEMI THEN [st EXCEPT !.row = st.tmp]
  ELSE IF b = CH_R THEN [st EXCEPT !.col = st.tmp, !.brk = TRUE]
  ELSE st
DsrStep_live_col(st, b) ==
  IF b \in CH_0..CH_9 THEN [st EXCEPT !.tmp = st.tmp * 10 + (b - CH_0),
                                      !.col = st.tmp * 10 + (b - CH_0)]
  ELSE IF b = SEMI THEN [st EXCEPT !.row = st.tmp, !.tmp = 0]
  ELSE IF b = CH_R THEN [st EXCEPT !.col = st.tmp, !.brk = TRUE]
  ELSE st
\* 'R' commits col and the loop goes on
DsrStep_no_break(st, b) ==
  IF b \in CH_0..CH_9 THEN [st EXCEPT !.tmp = st.tmp * 10 + (b - CH_0)]
  ELSE IF b = SEMI THEN [st EXCEPT !.row = st.tmp, !.tmp = 0]
  ELSE IF b = CH_R THEN [st EXCEPT !.col = st.tmp]
  ELSE st
DsrStep_semi_col(st, b) ==
  IF b \in CH_0..CH_9 THEN [st EXCEPT !.tmp = st.tmp * 10 + (b - CH_0)]
  ELSE IF b = SEMI THEN [st EXCEPT !.col = st.tmp, !.tmp = 0]
  ELSE IF b = CH_R THEN [st EXCEPT !.col = st.tmp, !.brk = TRUE]
  ELSE st
DsrStep(st, b) ==
  IF b \in CH_0..CH_9 THEN [st EXCEPT !.tmp = st.tmp * 10 + (b - CH_0)]
  ELSE IF b = SEMI THEN [st EXCEPT !.row = st.tmp, !.tmp = 0]
  ELSE IF b = CH_R THEN [st EXCEPT !.col = st.tmp, !.brk = TRUE]
  ELSE st

\* The loop of dsr over the items of a reader, from locals st: Err items are
\* dropped, the loop is left at the first 'R' or at the end of the reader.
RECURSIVE DsrRun(_, _)
DsrRun(st, items) ==
  IF items = << >> \/ st.brk THEN st
  ELSE IF Head(items) = READ_ERR THEN DsrRun(st, Tail(items))
  ELSE DsrRun(DsrStep(st, Head(items)), Tail(items))

\* let (mut row, mut col, mut tmp) = (0usize, 0usize, 0usize);
DsrLocals0 == [row |-> 0, col |-> 0, tmp |-> 0, brk |-> FALSE]

\* The readers handed to dsr: every stream of at most MaxLen items over
\* Alphabet, and every reply ESC [ <digits> ; <digits> R with at most
\* MaxDigits digits in each number.
Alphabet == {ESC, LBRACKET, CH_0, CH_0 + 1, SEMI, CH_R, READ_ERR}
DigitBytes == {CH_0, CH_0 + 1, CH_9}
DigitStrs == UNION {[1..k -> DigitBytes] : k \in 1..MaxDigits}
Replies == {CSI \o a \o <<SEMI>> \o b \o <<CH_R>> : a \in DigitStrs, b \in DigitStrs}
Streams == UNION {[1..k -> Alphabet] : k \in 0..MaxLen}
Inputs == Streams \cup Replies

\* dsr up to the loop: echo_off, the query written and flushed (either may
\* fail, and then dsr returns None at once), the locals set to 0.
DsrBegin ==
  /\ pc = "idle"
  /\ \E input \in Inputs, w \in WriteFmt(DsrQuery), flushOk \in BOOLEAN :
       LET off == echo_off(echo) IN
       /\ call' = [op |-> "dsr", args |-> << >>]
       /\ oldstat' = off.snapshot
       /\ echo' = off.mode
       /\ offs' = 1
       /\ ons' = 0
       /\ wrote' = w.wrote
       /\ wlog' = <<w.ok>>
       /\ flushed' = (w.ok /\ flushOk)
       /\ rd' = input
       /\ consumed' = << >>
       /\ row' = 0 /\ col' = 0 /\ tmp' = 0
       /\ IF w.ok /\ flushOk
          THEN pc' = "loop" /\ res' = Unit("pending")
          ELSE pc' = "done" /\ res' = Unit("None")
  /\ UNCHANGED termVars

\* One item read from the reader: an Err is dropped by filter_map, a byte
\* goes through the match.
DsrByte ==
  /\ pc = "loop"
  /\ rd # << >>
  /\ LET b == Head(rd)
         st == IF b = READ_ERR
               THEN [row |-> row, col |-> col, tmp |-> tmp, brk |-> FALSE]
               ELSE DsrStep([row |-> row, col |-> col, tmp |-> tmp, brk |-> FALSE], b)
     IN  /\ row' = st.row
         /\ col' = st.col
         /\ tmp' = st.tmp
         /\ pc' = IF st.brk THEN "exit" ELSE "loop"
  /\ rd' = Tail(rd)
  /\ consumed' = Append(consumed, Head(rd))
  /\ UNCHANGED <<call, res, wrote, wlog, flushed, echoVars, termVars>>

\* The reader is at its end: the loop is left.
DsrEof ==
  /\ pc = "loop"
  /\ rd = << >>
  /\ pc' = "exit"
  /\ UNCHANGED <<call, res, wrote, wlog, flushed, echoVars, dsrLocals, termVars>>

\* After the loop: echo_on(&*oldstat); Some((row, col))
DsrExit ==
  /\ pc = "exit"
  /\ echo' = echo_on(oldstat)
  /\ ons' = ons + 1
  /\ res' = Some(row, col)
  /\ pc' = "done"
  /\ UNCHANGED <<call, wrote, wlog, flushed, oldstat, offs, dsrLocals, trow, tcol, prog>>

DsrReturn == DsrExit /\ UNCHANGED hist

\* The caller takes the result (the tests unwrap it, or compare it) and goes
\* on to its next call; what the finished call owned is dropped.  The
\* terminal keeps its mode.
Resume ==
  /\ pc = "done"
  /\ pc' = "idle"
  /\ call' = [op |-> "none", args |-> << >>]
  /\ res' = NoRes
  /\ wrote' = << >>
  /\ wlog' = << >>
  /\ flushed' = FALSE
  /\ oldstat' = TRUE
  /\ offs' = 0 /\ ons' = 0
  /\ rd' = << >> /\ consumed' = << >>
  /\ row' = 0 /\ col' = 0 /\ tmp' = 0
  /\ UNCHANGED <<echo, termVars>>

Next ==
  \/ Cuu \/ Cud \/ Cuf \/ Cub \/ Cnl \/ Cpl \/ Cha \/ Cup
  \/ Ed \/ El \/ Su \/ Sd \/ Sgr \/ SgrColor
  \/ Scp \/ Rcp \/ Sm \/ Rm \/ Decscusr
  \/ DsrBegin \/ DsrByte \/ DsrEof \/ DsrReturn
  \/ Resume

Spec == Init /\ [][Next]_vars

\* -------------------------------------------------------------- terminal
\* The sink and the reader are a terminal of TermRows x TermCols cells, as in
\* the tests of csi.rs (stdout and stdin of a tty).  It executes the sequences
\* written to it and answers the query ESC [ 6 n with ESC [ row ; col R.
TermRows == 10
TermCols == 2
\* Largest argument the caller hands to cup, cuu and cud.
MaxK == 11

Min(a, b) == IF a < b THEN a ELSE b
Max(a, b) == IF a > b THEN a ELSE b

\* The value of a parameter string (empty: 0)
RECURSIVE TermNum(_)
TermNum(ds) == IF ds = << >> THEN 0
               ELSE TermNum(SubSeq(ds, 1, Len(ds) - 1)) * 10 + (ds[Len(ds)] - CH_0)

\* The parameter strings of a sequence, split at ';'
RECURSIVE TermSplit(_, _)
TermSplit(bs, cur) ==
  IF bs = << >> THEN <<cur>>
  ELSE IF Head(bs) = SEMI THEN <<cur>> \o TermSplit(Tail(bs), << >>)
  ELSE TermSplit(Tail(bs), Append(cur, Head(bs)))

\* Parameter i of a sequence; a parameter that is missing or 0 is 1.
TermParam(ps, i) == IF i <= Len(ps) /\ TermNum(ps[i]) # 0 THEN TermNum(ps[i]) ELSE 1

\* The terminal with its cursor at (r, c) executes one sequence
\* ESC [ <params> <final>: the cursor after it and the bytes it sends back.
\* The cursor stops at the edges of the screen.
TermExec(r, c, bytes) ==
  LET ps == TermSplit(SubSeq(bytes, 3, Len(bytes) - 1), << >>)
      final == bytes[Len(bytes)]
      p1 == TermParam(ps, 1)
      p2 == TermParam(ps, 2)
  IN  IF final = 65 THEN [row |-> Max(1, r - p1), col |-> c, reply |-> << >>]
      ELSE IF final = 66 THEN [row |-> Min(TermRows, r + p1), col |-> c, reply |-> << >>]
      ELSE IF final = 72
           THEN [row |-> Min(TermRows, p1), col |-> Min(TermCols, p2), reply |-> << >>]
      ELSE IF final = 110 /\ p1 = 6
           THEN [row |-> r, col |-> c,
                 reply |-> CSI \o Digits(r) \o <<SEMI>> \o Digits(c) \o <<CH_R>>]
      ELSE [row |-> r, col |-> c, reply |-> << >>]

\* The callers: cup then dsr, as tests::test_cup; and dsr, cuu, cud, dsr.
Call(op, args) == [op |-> op, args |-> args]
KArgs == 0..MaxK
Programs ==
  {<<Call("cup", <<r, c>>), Call("dsr", << >>)>> : r \in KArgs, c \in KArgs}
    \cup {<<Call("dsr", << >>), Call("cuu", <<k>>), Call("cud", <<j>>), Call("dsr", << >>)>>
            : k \in KArgs, j \in KArgs}

InitTerm ==
  /\ Quiet
  /\ trow \in 1..TermRows
  /\ tcol \in 1..TermCols
  /\ prog \in Programs

\* The next call of the caller is a formatting operation: its write reaches
\* the terminal whole (the tests unwrap the result), and the terminal
\* executes it.
TermInvoke(op, payloads) ==
  /\ pc = "idle"
  /\ prog # << >>
  /\ Head(prog).op = op
  /\ LET bytes == payloads[1]
         t == TermExec(trow, tcol, bytes)
     IN  /\ wrote' = bytes
         /\ trow' = t.row
         /\ tcol' = t.col
  /\ wlog' = <<TRUE>>
  /\ res' = Unit(QMark(TRUE))
  /\ call' = Head(prog)
  /\ prog' = Tail(prog)
  /\ hist' = Append(hist, [op |-> op, args |-> Head(prog).args, res |-> Unit(QMark(TRUE))])
  /\ pc' = "done"
  /\ UNCHANGED <<flushed, echoVars, dsrLocals>>

TermCup == prog # << >> /\ TermInvoke("cup", cup(Head(prog).args[1], Head(prog).args[2]))
TermCuu == prog # << >> /\ TermInvoke("cuu", cuu(Head(prog).args[1]))
TermCud == prog # << >> /\ TermInvoke("cud", cud(Head(prog).args[1]))

\* dsr on the terminal: the query is written and flushed, the terminal
\* answers it into the reader.
TermDsrBegin ==
  /\ pc = "idle"
  /\ prog # << >>
  /\ Head(prog).op = "dsr"
  /\ LET off == echo_off(echo)
         t == TermExec(trow, tcol, DsrQuery)
     IN  /\ oldstat' = off.snapshot
         /\ echo' = off.mode
         /\ rd' = rd \o t.reply
  /\ offs' = 1
  /\ ons' = 0
  /\ call' = Head(prog)
  /\ prog' = Tail(prog)
  /\ wrote' = DsrQuery
  /\ wlog' = <<TRUE>>
  /\ flushed' = TRUE
  /\ consumed' = << >>
  /\ row' = 0 /\ col' = 0 /\ tmp' = 0
  /\ res' = Unit("pending")
  /\ pc' = "loop"
  /\ UNCHANGED <<trow, tcol, hist>>

TermDsrReturn ==
  /\ DsrExit
  /\ hist' = Append(hist, [op |-> "dsr", args |-> << >>, res |-> Some(row, col)])

NextTerm ==
  \/ TermCup \/ TermCuu \/ TermCud
  \/ TermDsrBegin \/ DsrByte \/ TermDsrReturn
  \/ Resume

SpecTerm == InitTerm /\ [][NextTerm]_vars

\* ------------------------------------------------- one reader, many calls
\* The caller keeps one reader (stdin in the tests) and calls dsr on it again
\* and again: each call goes on where the call before stopped reading.
\* Most calls of dsr made on the reader.
MaxCalls == 3
\* Most replies the reader holds back to back.
MaxReplies == 2
\* Longest arbitrary reader.
MaxShort == 3

\* The replies to the cursor at (1,1), (1,12), (12,1), (12,12)
TrainReplies ==
  {CSI \o Digits(r) \o <<SEMI>> \o Digits(c) \o <<CH_R>> : r \in {1, 12}, c \in {1, 12}}
RECURSIVE Trains(_)
Trains(k) == IF k = 0 THEN {<< >>}
             ELSE {t \o y : t \in Trains(k - 1), y \in TrainReplies}
Readers == UNION {Trains(k) : k \in 0..MaxReplies}
             \cup UNION {[1..k -> Alphabet] : k \in 0..MaxShort}

InitStream ==
  /\ pc = "idle"
  /\ call = [op |-> "none", args |-> << >>]
  /\ res = NoRes
  /\ wrote = << >>
  /\ wlog = << >>
  /\ flushed = FALSE
  /\ echo \in BOOLEAN
  /\ oldstat = TRUE
  /\ offs = 0
  /\ ons = 0
  /\ rd \in Readers
  /\ consumed = << >>
  /\ row = 0 /\ col = 0 /\ tmp = 0
  /\ trow = 1 /\ tcol = 1
  /\ prog = << >>
  /\ hist = << >>

\* What hist keeps of a call of dsr: whether its query went out, the items it
\* read, what it returned.
DsrRecord(sent, read, result) ==
  [op |-> "dsr", args |-> << >>, sent |-> sent, read |-> read, res |-> result]

\* dsr called on the reader as the calls before left it.
StreamDsrBegin ==
  /\ pc = "idle"
  /\ Len(hist) < MaxCalls
  /\ \E w \in WriteFmt(DsrQuery), flushOk \in BOOLEAN :
       LET off == echo_off(echo) IN
       /\ call' = [op |-> "dsr", args |-> << >>]
       /\ oldstat' = off.snapshot
       /\ echo' = off.mode
       /\ offs' = 1
       /\ ons' = 0
       /\ wrote' = w.wrote
       /\ wlog' = <<w.ok>>
       /\ flushed' = (w.ok /\ flushOk)
       /\ consumed' = << >>
       /\ row' = 0 /\ col' = 0 /\ tmp' = 0
       /\ IF w.ok /\ flushOk
          THEN pc' = "loop" /\ res' = Unit("pending") /\ hist' = hist
          ELSE /\ pc' = "done" /\ res' = Unit("None")
               /\ hist' = Append(hist, DsrRecord(FALSE, << >>, Unit("None")))
  /\ UNCHANGED <<rd, trow, tcol, prog>>

StreamDsrReturn ==
  /\ DsrExit
  /\ hist' = Append(hist, DsrRecord(TRUE, consumed, Some(row, col)))

\* The caller takes the result and keeps the reader for its next call.
StreamResume ==
  /\ pc = "done"
  /\ pc' = "idle"
  /\ call' = [op |-> "none", args |-> << >>]
  /\ res' = NoRes
  /\ wrote' = << >>
  /\ wlog' = << >>
  /\ flushed' = FALSE
  /\ oldstat' = TRUE
  /\ offs' = 0 /\ ons' = 0
  /\ consumed' = << >>
  /\ row' = 0 /\ col' = 0 /\ tmp' = 0
  /\ UNCHANGED <<echo, rd, termVars>>

NextStream ==
  \/ StreamDsrBegin \/ DsrByte \/ DsrEof \/ StreamDsrReturn
  \/ StreamResume

SpecStream == InitStream /\ [][NextStream]_vars

\* The thread that called dsr keeps running: an item that is a byte is read
\* and matched, the end of the reader is seen, the code after the loop runs.
\* A read that returns Err is the reader's doing, and a reader may go on
\* returning Err for ever: nothing makes an Err item go away.
Progress ==
  /\ WF_vars(DsrByte /\ Head(rd) # READ_ERR)
  /\ WF_vars(DsrEof)
  /\ WF_vars(StreamDsrReturn)

SpecStreamFair == SpecStream /\ Progress

\* ================================================================ claims
Range(sq) == {sq[i] : i \in 1..Len(sq)}
IsDigit(b) == b \in CH_0..CH_9
IsParserByte(b) == IsDigit(b) \/ b = SEMI \/ b = CH_R
RECURSIVE Pow10(_)
Pow10(k) == IF k = 0 THEN 1 ELSE 10 * Pow10(k - 1)
RECURSIVE SumTo(_, _)
\* The number a digit string denotes, by the weight of each position.
SumTo(ds, i) == IF i = 0 THEN 0
                ELSE (ds[i] - CH_0) * Pow10(Len(ds) - i) + SumTo(ds, i - 1)
DecVal(ds) == SumTo(ds, Len(ds))
\* Everything the reader of the call held when dsr was called.
Input == consumed \o rd
DsrDone == pc = "done" /\ call.op = "dsr"
\* The query went out: written whole and flushed.
QuerySent == wlog = <<TRUE>> /\ flushed
\* The positions of ';' in a stream
Semis(sq) == {i \in 1..Len(sq) : sq[i] = SEMI}
SetMax(S) == CHOOSE x \in S : \A y \in S : y <= x

\* C1: every dsr call that turned echo off has called echo_on with the
\* snapshot exactly once by the time it returns, on every exit path.
C1_EchoRestoredOnEveryExit ==
  (DsrDone /\ offs = 1) => (ons = 1 /\ echo = oldstat)

\* A well-formed reply: ESC [ <digits> ; <digits> R, both numbers non-empty.
WellFormed(sq) ==
  /\ Len(sq) >= 6
  /\ sq[1] = ESC /\ sq[2] = LBRACKET /\ sq[Len(sq)] = CH_R
  /\ Cardinality(Semis(sq)) = 1
  /\ LET p == SetMax(Semis(sq)) IN
       /\ 3 < p /\ p < Len(sq) - 1
       /\ \A i \in (3..(Len(sq) - 1)) \ {p} : IsDigit(sq[i])
ReplyRow(sq) == DecVal(SubSeq(sq, 3, SetMax(Semis(sq)) - 1))
ReplyCol(sq) == DecVal(SubSeq(sq, SetMax(Semis(sq)) + 1, Len(sq) - 1))

\* C2: when the reader holds a well-formed reply ESC [ <row> ; <col> R, dsr
\* (its query sent) returns Some((row, col)), row and col being the numbers
\* the two digit strings denote.
C2_WellFormedReplyParsed ==
  (DsrDone /\ QuerySent /\ WellFormed(Input))
    => res = Some(ReplyRow(Input), ReplyCol(Input))
C2_Witness ==
  /\ DsrDone /\ QuerySent /\ WellFormed(Input)
  /\ res.kind = "Some" /\ res.row >= 10 /\ res.col >= 10 /\ res.row # res.col

\* C3: bytes other than '0'-'9', ';' and 'R' change nothing: at every point of
\* the loop the locals are what the loop computes from the bytes read so far
\* with those bytes left out, and so is the result of dsr.
Strip(sq) == SelectSeq(sq, LAMBDA b : b = READ_ERR \/ IsParserByte(b))
C3_OtherBytesSkipped ==
  /\ pc \in {"loop", "exit"} =>
       LET st == DsrRun(DsrLocals0, Strip(consumed))
       IN  row = st.row /\ col = st.col /\ tmp = st.tmp
  /\ (DsrDone /\ QuerySent) =>
       LET st == DsrRun(DsrLocals0, Strip(Input))
       IN  res = Some(st.row, st.col)
C3_Witness ==
  /\ DsrDone /\ QuerySent
  /\ Len(consumed) = 4
  /\ IsDigit(consumed[1]) /\ consumed[2] = ESC /\ IsDigit(consumed[3])
  /\ consumed[4] = CH_R
  /\ res.col >= 10

\* The final byte of each repeat-count operation with one count.
RepeatOps == {"cuu", "cud", "cuf", "cub", "cnl", "cpl", "cha", "su", "sd"}
FinalOf(op) ==
  CASE op = "cuu" -> 65 [] op = "cud" -> 66 [] op = "cuf" -> 67 [] op = "cub" -> 68
    [] op = "cnl" -> 69 [] op = "cpl" -> 70 [] op = "cha" -> 71
    [] op = "su" -> 83 [] op = "sd" -> 84
\* A count as it must appear in a sequence: digits, no leading '0', value v.
IsCount(ds, v) ==
  /\ ds # << >>
  /\ \A i \in 1..Len(ds) : IsDigit(ds[i])
  /\ ds[1] # CH_0
  /\ DecVal(ds) = v
AtLeast1(n) == IF n >= 1 THEN n ELSE 1
FormatDone == pc = "done" /\ call.op \notin {"none", "dsr"}
Succeeded == res.kind = "Ok"

\* C4: a repeat-count operation that succeeds has written exactly
\* ESC [ max(n,1) <final> (cup: ESC [ max(row,1) ; max(col,1) H), and no
\* count that reaches the sink, whole or cut short by a failure, starts
\* with '0'.
C4_RepeatCountsAtLeastOne ==
  /\ (FormatDone /\ call.op \in RepeatOps) =>
       /\ Succeeded =>
            /\ Len(wrote) >= 4
            /\ SubSeq(wrote, 1, 2) = <<ESC, LBRACKET>>
            /\ wrote[Len(wrote)] = FinalOf(call.op)
            /\ IsCount(SubSeq(wrote, 3, Len(wrote) - 1), AtLeast1(call.args[1]))
       /\ Len(wrote) >= 3 => wrote[3] # CH_0
  /\ (FormatDone /\ call.op = "cup") =>
       /\ Succeeded =>
            /\ Len(wrote) >= 6
            /\ SubSeq(wrote, 1, 2) = <<ESC, LBRACKET>>
            /\ wrote[Len(wrote)] = 72
            /\ Cardinality(Semis(wrote)) = 1
            /\ LET p == SetMax(Semis(wrote)) IN
                 /\ IsCount(SubSeq(wrote, 3, p - 1), AtLeast1(call.args[1]))
                 /\ IsCount(SubSeq(wrote, p + 1, Len(wrote) - 1), AtLeast1(call.args[2]))
       /\ Len(wrote) >= 3 => wrote[3] # CH_0
       /\ \A i \in Semis(wrote) : i < Len(wrote) => wrote[i + 1] # CH_0
C4_Witness ==
  /\ FormatDone /\ Succeeded
  /\ call.op = "cup" /\ call.args = <<0, 10>>
  /\ wrote = <<ESC, LBRACKET, CH_0 + 1, SEMI, CH_0 + 1, CH_0, 72>>

\* The calls completed on the terminal, i and i+1, are op1 then op2.
Consecutive(i, op1, op2) ==
  /\ i + 1 <= Len(hist)
  /\ hist[i].op = op1 /\ hist[i + 1].op = op2

\* C5: on the terminal, cup(row, col) and then dsr gives (row, col) when
\* row >= 1, col >= 1 are on the screen, and cup(0, 0) gives (1, 1).
C5_CupThenDsr ==
  \A i \in 1..Len(hist) :
    Consecutive(i, "cup", "dsr") =>
      LET r == hist[i].args[1]
          c == hist[i].args[2]
      IN  /\ (r \in 1..TermRows /\ c \in 1..TermCols) => hist[i + 1].res = Some(r, c)
          /\ (r = 0 /\ c = 0) => hist[i + 1].res = Some(1, 1)
C5_Witness ==
  /\ Len(hist) = 2
  /\ Consecutive(1, "cup", "dsr")
  /\ hist[1].args = <<TermRows, 1>>
  /\ hist[2].res = Some(TermRows, 1)

\* The calls completed on the terminal are dsr, cuu(k), cud(k), dsr.
UpDownDone ==
  /\ Len(hist) = 4
  /\ Consecutive(1, "dsr", "cuu") /\ Consecutive(3, "cud", "dsr")
  /\ hist[2].args = hist[3].args
\* C6 as claimed: cuu(k) then cud(k) leaves the row dsr reports unchanged,
\* for every starting row and every k.
C6_UpDownRestoresRow ==
  UpDownDone => hist[4].res.row = hist[1].res.row
\* C6 as amended: it does whenever the starting row is greater than max(k,1),
\* that is when cuu(k) does not stop at the first row.
C6_UpDownRestoresRowBelowTop ==
  (UpDownDone /\ hist[1].res.row > AtLeast1(hist[2].args[1]))
    => hist[4].res = hist[1].res
C6_Witness ==
  /\ UpDownDone
  /\ hist[2].args = <<2>>
  /\ hist[1].res = Some(TermRows, 2)
  /\ hist[4].res = Some(TermRows, 2)

\* C7: the query sent and the reader ended with no 'R' read, dsr returns Some
\* with col 0 and row the number between the last ';' and the ';' before it
\* (0 when no ';' was read); an empty reader gives (0, 0).
LastCommitted(sq) ==
  LET sig == SelectSeq(sq, LAMBDA b : IsDigit(b) \/ b = SEMI)
      ps == Semis(sig)
  IN  IF ps = {} THEN 0
      ELSE LET p == SetMax(ps)
               q == IF ps \ {p} = {} THEN 0 ELSE SetMax(ps \ {p})
           IN  DecVal(SubSeq(sig, q + 1, p - 1))
C7_EndOfInputGivesZeros ==
  (DsrDone /\ QuerySent /\ CH_R \notin Range(Input))
    => /\ res = Some(LastCommitted(Input), 0)
       /\ (Input = << >> => res = Some(0, 0))
C7_Witness ==
  /\ DsrDone /\ QuerySent /\ CH_R \notin Range(Input)
  /\ res.kind = "Some" /\ res.row > 0 /\ res.col = 0 /\ tmp > 0

\* C8: ed(m) that succeeds has written ESC [ m J for m in 0..3, el(m)
\* ESC [ m K for m in 0..2, m as it is (0 stays 0); for any other m nothing
\* reaches the sink, no write is attempted, and the operation returns Ok.
C8_EraseModes ==
  /\ (FormatDone /\ call.op = "ed") =>
       LET m == call.args[1] IN
       IF m \in 0..3
       THEN Succeeded => wrote = <<ESC, LBRACKET, CH_0 + m, 74>>
       ELSE Succeeded /\ wrote = << >> /\ wlog = << >>
  /\ (FormatDone /\ call.op = "el") =>
       LET m == call.args[1] IN
       IF m \in 0..2
       THEN Succeeded => wrote = <<ESC, LBRACKET, CH_0 + m, 75>>
       ELSE Succeeded /\ wrote = << >> /\ wlog = << >>
C8_Witness ==
  /\ FormatDone /\ Succeeded
  /\ call = [op |-> "ed", args |-> <<0>>]
  /\ wrote = <<ESC, LBRACKET, CH_0, 74>>

\* C9: a formatting operation returns Err exactly when a write_fmt of it
\* failed; the failed write is its last (no retry, nothing written after
\* it); it returns Ok only when its write succeeded or it wrote nothing.
C9_WriteErrorPropagated ==
  FormatDone =>
    /\ res.kind \in {"Ok", "Err"}
    /\ (res.kind = "Err") <=> (FALSE \in Range(wlog))
    /\ \A i \in 1..Len(wlog) : ~wlog[i] => i = Len(wlog)
    /\ Len(wlog) <= 1
    /\ Succeeded => (wlog = << >> \/ wlog = <<TRUE>>)
C9_Witness ==
  /\ FormatDone
  /\ call.op = "cup"
  /\ res.kind = "Err"
  /\ wlog = <<FALSE>>
  /\ Len(wrote) = 3

\* C10 as claimed: once a ';' has been read, no later byte changes row.
C10_RowFrozenAfterFirstSemi ==
  [][(pc = "loop" /\ SEMI \in Range(consumed)) => row' = row]_vars
\* C10 as amended: the locals start at 0; every ';' commits row (row becomes the
\* accumulator, the accumulator 0), a further ';' included, and nothing else
\* changes row; col changes only on 'R'.
C10_RowCommittedByEverySemi ==
  [][/\ (pc = "idle" /\ pc' = "loop") => (row' = 0 /\ col' = 0 /\ tmp' = 0)
     /\ pc = "loop" =>
          /\ row' # row => (rd # << >> /\ Head(rd) = SEMI)
          /\ (rd # << >> /\ Head(rd) = SEMI) => (row' = tmp /\ tmp' = 0)
          /\ col' # col => (rd # << >> /\ Head(rd) = CH_R)]_vars
C10_Witness ==
  /\ pc = "loop"
  /\ consumed = <<CH_0 + 1, SEMI, SEMI>>
  /\ row = 0

\* dsr is in or just past its loop
InDsr == pc \in {"loop", "exit"}
LastIs(sq, b) == sq # << >> /\ sq[Len(sq)] = b

\* C11: once dsr has read an 'R', or its reader is at its end, dsr returns,
\* whatever reads returned Err on the way.
C11_ReplyOrEof ==
  InDsr /\ (LastIs(consumed, CH_R) \/ rd = << >>)
C11_ReturnsAfterReplyOrEof ==
  C11_ReplyOrEof ~> (pc = "done")
C11_Witness ==
  /\ pc = "done" /\ res.kind = "Some"
  /\ Len(consumed) = 3
  /\ consumed[1] = READ_ERR /\ consumed[2] = READ_ERR /\ consumed[3] = CH_R

\* The items read by the calls of hist, in order.
RECURSIVE ReadsOf(_)
ReadsOf(h) == IF h = << >> THEN << >> ELSE h[1].read \o ReadsOf(Tail(h))
\* The reader as the caller first had it.
Orig == ReadsOf(hist) \o (IF InDsr THEN consumed ELSE << >>) \o rd
\* A stream cut after every 'R': the pieces, and what follows the last 'R'.
RECURSIVE CutAtR(_, _, _)
CutAtR(sq, cur, segs) ==
  IF sq = << >> THEN [segs |-> segs, rest |-> cur]
  ELSE IF Head(sq) = CH_R THEN CutAtR(Tail(sq), << >>, Append(segs, Append(cur, CH_R)))
  ELSE CutAtR(Tail(sq), Append(cur, Head(sq)), segs)
Cut(sq) == CutAtR(sq, << >>, << >>)
\* k well-formed replies back to back, and nothing else.
IsTrain(sq) ==
  /\ Cut(sq).rest = << >>
  /\ \A j \in 1..Len(Cut(sq).segs) : WellFormed(Cut(sq).segs[j])
\* How many of the first i calls sent their query.
SentUpTo(i) == Cardinality({j \in 1..i : hist[j].sent})
\* Nothing before the last item of sq is an 'R'.
NoEarlierR(sq) == \A i \in 1..(Len(sq) - 1) : sq[i] # CH_R

\* C12: a call of dsr reads up to and including the first 'R' and nothing
\* after it (or to the end of the reader when there is no 'R'); and when the
\* reader held k well-formed replies back to back, the calls that sent their
\* query return the positions of the replies, in order.
C12_OneReplyPerCall ==
  /\ (InDsr \/ pc = "done") => NoEarlierR(consumed)
  /\ \A i \in 1..Len(hist) :
       hist[i].sent =>
         /\ NoEarlierR(hist[i].read)
         /\ (LastIs(hist[i].read, CH_R)
               \/ ReadsOf(SubSeq(hist, i + 1, Len(hist))) \o rd = << >>)
  /\ IsTrain(Orig) =>
       \A i \in 1..Len(hist) :
         (hist[i].sent /\ SentUpTo(i) <= Len(Cut(Orig).segs)) =>
           LET seg == Cut(Orig).segs[SentUpTo(i)]
           IN  /\ hist[i].read = seg
               /\ hist[i].res = Some(ReplyRow(seg), ReplyCol(seg))
C12_Witness ==
  /\ pc = "done"
  /\ Len(hist) = 2
  /\ hist[1].sent /\ hist[2].sent
  /\ hist[1].res = Some(1, 12)
  /\ hist[2].res = Some(12, 1)
  /\ rd = << >>

====
